---- MODULE Spec2Model ----
(***************************************************************************)
(* git-global: the Repo handle (src/src/repo.rs), the console UI table     *)
(* (src/src/subcommands/ui.rs) and the command line dispatch               *)
(* (src/src/cli.rs).                                                       *)
(*                                                                         *)
(* A Rust String is modelled as a sequence of one-character strings, so    *)
(* that its length and its byte-wise ordering can be computed.             *)
(***************************************************************************)
EXTENDS Integers, Sequences, FiniteSets

VARIABLES
    status,     \* git2::Status handed to get_short_format_status
    short,      \* the String it returned (<<>> before the call)
    repos,      \* Vec<Repo>: the repositories known to the program
    disk,       \* backend state of every known path (what git2 reports)
    now,        \* the wall clock Utc::now() reads: [secs, nanos]
    result,     \* outcome of the last query made on a Repo handle
    pc,         \* where the process is: "start", "ui", "exited", "panicked"
    items,      \* rows of the TableView, in display order
    sorted,     \* <<column, order>> of the last sort, <<>> if none
    layers,     \* number of "Sorted by" dialogs on top of the main screen
    output,     \* content of the "output" TextView, as lines
    cli         \* what run_from_command_line did, [ran |-> "nothing"] before

vars == <<status, short, repos, disk, now, result, pc, items, sorted,
          layers, output, cli>>

----------------------------------------------------------------------------
(* Bounds *)

MaxEntries == 2     \* longest status listing / stash list of the one-repo runs
MaxHours == 1       \* timestamps of the one-repo runs span 0 .. MaxHours hours
MaxRepos == 2       \* most repositories in the UI runs

----------------------------------------------------------------------------
(* Strings *)

Min(S) == CHOOSE x \in S : \A y \in S : x <= y

\* byte value of the characters that occur in compared strings
Ord(c) ==
    CASE c = " " -> 32 [] c = "!" -> 33 [] c = "-" -> 45 [] c = "." -> 46
      [] c = "/" -> 47 [] c = "0" -> 48 [] c = "1" -> 49 [] c = "2" -> 50
      [] c = "3" -> 51 [] c = "4" -> 52 [] c = "5" -> 53 [] c = "6" -> 54
      [] c = "7" -> 55 [] c = "8" -> 56 [] c = "9" -> 57 [] c = "?" -> 63
      [] c = "A" -> 65 [] c = "C" -> 67 [] c = "D" -> 68 [] c = "M" -> 77
      [] c = "R" -> 82 [] c = "T" -> 84 [] c = "a" -> 97 [] c = "b" -> 98
      [] c = "c" -> 99 [] c = "f" -> 102 [] c = "g" -> 103

IntCmp(a, b) == IF a < b THEN "Less" ELSE IF a > b THEN "Greater" ELSE "Equal"

\* String::cmp: lexicographic by bytes, a proper prefix is Less
StrCmp(a, b) ==
    LET n == IF Len(a) < Len(b) THEN Len(a) ELSE Len(b)
        diff == {i \in 1..n : a[i] # b[i]}
    IN  IF diff = {} THEN IntCmp(Len(a), Len(b))
        ELSE IntCmp(Ord(a[Min(diff)]), Ord(b[Min(diff)]))

----------------------------------------------------------------------------
(* git2::Status and get_short_format_status *)

Flags == {"INDEX_NEW", "INDEX_MODIFIED", "INDEX_DELETED", "INDEX_RENAMED",
          "INDEX_TYPECHANGE", "WT_NEW", "WT_MODIFIED", "WT_DELETED",
          "WT_RENAMED", "WT_TYPECHANGE", "IGNORED", "CONFLICTED"}

IndexFlags == {"INDEX_NEW", "INDEX_MODIFIED", "INDEX_DELETED",
               "INDEX_RENAMED", "INDEX_TYPECHANGE"}

WtFlags == {"WT_NEW", "WT_MODIFIED", "WT_DELETED", "WT_RENAMED",
            "WT_TYPECHANGE"}

\* first match of the index-state arms
istatus_match(s) ==
    IF "INDEX_NEW" \in s THEN "A"
    ELSE IF "INDEX_MODIFIED" \in s THEN "M"
    ELSE IF "INDEX_DELETED" \in s THEN "D"
    ELSE IF "INDEX_RENAMED" \in s THEN "R"
    ELSE IF "INDEX_TYPECHANGE" \in s THEN "T"
    ELSE " "

\* first match of the worktree-state arms
wstatus_match(s) ==
    IF "WT_NEW" \in s THEN "?"
    ELSE IF "WT_MODIFIED" \in s THEN "M"
    ELSE IF "WT_DELETED" \in s THEN "D"
    ELSE IF "WT_RENAMED" \in s THEN "R"
    ELSE IF "WT_TYPECHANGE" \in s THEN "T"
    ELSE " "

\* mutant: the worktree-new arm overwrites the index character always
gsfs_force_question(s) ==
    LET i1 == IF "WT_NEW" \in s THEN "?" ELSE istatus_match(s)
        w0 == wstatus_match(s)
        i2 == IF "IGNORED" \in s THEN "!" ELSE i1
        w2 == IF "IGNORED" \in s THEN "!" ELSE w0
    IN  IF "CONFLICTED" \in s THEN <<"C", "C">> ELSE <<i2, w2>>

\* mutant: the worktree priority has modified before new
gsfs_wt_priority(s) ==
    LET i0 == istatus_match(s)
        i1 == IF "WT_NEW" \in s /\ i0 = " " THEN "?" ELSE i0
        w0 == IF "WT_MODIFIED" \in s THEN "M" ELSE wstatus_match(s)
        i2 == IF "IGNORED" \in s THEN "!" ELSE i1
        w2 == IF "IGNORED" \in s THEN "!" ELSE w0
    IN  IF "CONFLICTED" \in s THEN <<"C", "C">> ELSE <<i2, w2>>

\* mutant: the ignored override is applied after the conflicted one
gsfs_ignored_last(s) ==
    LET i0 == istatus_match(s)
        i1 == IF "WT_NEW" \in s /\ i0 = " " THEN "?" ELSE i0
        w0 == wstatus_match(s)
        i2 == IF "CONFLICTED" \in s THEN "C" ELSE i1
        w2 == IF "CONFLICTED" \in s THEN "C" ELSE w0
    IN  IF "IGNORED" \in s THEN <<"!", "!">> ELSE <<i2, w2>>

\* mutant: the ignored override sets the index character only
gsfs_ignored_half(s) ==
    LET i0 == istatus_match(s)
        i1 == IF "WT_NEW" \in s /\ i0 = " " THEN "?" ELSE i0
        w0 == wstatus_match(s)
        i2 == IF "IGNORED" \in s THEN "!" ELSE i1
    IN  IF "CONFLICTED" \in s THEN <<"C", "C">> ELSE <<i2, w0>>

get_short_format_status(s) ==
    LET i0 == istatus_match(s)
        i1 == IF "WT_NEW" \in s /\ i0 = " " THEN "?" ELSE i0
        w0 == wstatus_match(s)
        i2 == IF "IGNORED" \in s THEN "!" ELSE i1
        w2 == IF "IGNORED" \in s THEN "!" ELSE w0
        i3 == IF "CONFLICTED" \in s THEN "C" ELSE i2
        w3 == IF "CONFLICTED" \in s THEN "C" ELSE w2
    IN  <<i3, w3>>

----------------------------------------------------------------------------
(* i64 and its Display *)

\* An i64 is [max, n]: either i64::max_value() = 9223372036854775807, which
\* is beyond the integers the checker computes with (max = TRUE, n = 0),
\* or the integer n.
i64_max_value == [max |-> TRUE, n |-> 0]

I64(k) == [max |-> FALSE, n |-> k]

\* a < b on i64
I64Less(a, b) == IF a.max THEN FALSE ELSE IF b.max THEN TRUE ELSE a.n < b.n

DigitChar(d) ==
    CASE d = 0 -> "0" [] d = 1 -> "1" [] d = 2 -> "2" [] d = 3 -> "3"
      [] d = 4 -> "4" [] d = 5 -> "5" [] d = 6 -> "6" [] d = 7 -> "7"
      [] d = 8 -> "8" [] d = 9 -> "9"

RECURSIVE Digits(_)
Digits(k) ==
    IF k < 10 THEN <<DigitChar(k)>>
    ELSE Digits(k \div 10) \o <<DigitChar(k % 10)>>

\* format!("{}", v) of an i64
FormatI64(v) ==
    IF v.max
    THEN <<"9", "2", "2", "3", "3", "7", "2", "0", "3", "6", "8", "5", "4",
           "7", "7", "5", "8", "0", "7">>
    ELSE IF v.n < 0 THEN <<"-">> \o Digits(-v.n) ELSE Digits(v.n)

\* Rust integer division: the quotient is truncated toward zero
TruncDiv(a, b) == IF a >= 0 THEN a \div b ELSE -((-a) \div b)

SecondsPerHour == 3600

\* an instant of the wall clock: whole seconds and the nanoseconds past them
Instant(secs, nanos) == [secs |-> secs, nanos |-> nanos]

\* a <= b on instants
InstantLeq(a, b) ==
    a.secs < b.secs \/ (a.secs = b.secs /\ a.nanos <= b.nanos)

\* t.signed_duration_since(commit_time).num_seconds(): the duration holds
\* the seconds rounded down and the nanoseconds past them; num_seconds adds
\* one when the duration is negative and has nanoseconds
num_seconds(t, commit_time) ==
    LET secs == t.secs - commit_time
    IN  IF secs < 0 /\ t.nanos > 0 THEN secs + 1 ELSE secs

\* Duration::num_hours
num_hours(t, commit_time) ==
    TruncDiv(num_seconds(t, commit_time), SecondsPerHour)

----------------------------------------------------------------------------
(* Repo: a path, queried through the backend *)

Repo(path) == [path |-> path]

\* outcome of a call: a returned value, or a panic that unwinds the caller
Ret(v) == [panic |-> FALSE, value |-> v]
Panic == [panic |-> TRUE, value |-> <<>>]

\* git2::Repository::open(path).ok().expect(..)
as_git2_repo(r, d) == IF d[r.path].opens THEN Ret(d[r.path]) ELSE Panic

\* Repo::path()
path(r) == r.path

\* mutant: an unresolved tip yields 0
nhslc_zero(r, d, t) ==
    LET g == as_git2_repo(r, d)
    IN  IF g.panic THEN Panic
        ELSE IF g.value.tip = "commit"
        THEN Ret(I64(num_hours(t, g.value.commit_time)))
        ELSE Ret(I64(0))

\* t: the instant Utc::now() returns.
\* tip: "no_head" (head() fails), "no_target" (head.target() is None),
\* "not_commit" (find_commit fails) or "commit"
num_hours_since_last_commit(r, d, t) ==
    LET g == as_git2_repo(r, d)
    IN  IF g.panic THEN Panic
        ELSE IF g.value.tip = "commit"
        THEN Ret(I64(num_hours(t, g.value.commit_time)))
        ELSE Ret(i64_max_value)

WorkdirSide == WtFlags \cup {"IGNORED", "CONFLICTED"}

\* git2::StatusOptions: new() sets no flag, so untracked and ignored files
\* are listed only when asked for
StatusOptions(show, include_untracked, include_ignored) ==
    [show |-> show, include_untracked |-> include_untracked,
     include_ignored |-> include_ignored]

\* the flags of an entry that a listing made with opts reports
Reported(st, opts) ==
    LET shown == IF opts.show = "Workdir" THEN st \cap WorkdirSide ELSE st
        tracked == IF opts.include_untracked THEN shown
                   ELSE shown \ {"WT_NEW"}
    IN  IF opts.include_ignored THEN tracked ELSE tracked \ {"IGNORED"}

\* git2_repo.statuses(opts): g.statuses is every file of the repository
\* that is not current, untracked and ignored files included; a listing
\* has the entries that report a flag under opts. Fails (Panic stands for
\* the Err) on a bare repository.
statuses(g, opts) ==
    IF g.bare THEN Panic
    ELSE LET all == [i \in 1..Len(g.statuses) |->
                        [path |-> g.statuses[i].path,
                         status |-> Reported(g.statuses[i].status, opts)]]
             keep(e) == e.status # {}
         IN  Ret(SelectSeq(all, keep))

get_short_status(r, d) ==
    LET g == as_git2_repo(r, d)
    IN  IF g.panic THEN Panic
        ELSE LET st == statuses(g.value,
                                StatusOptions("Workdir", FALSE, FALSE))
             IN  IF st.panic THEN Panic
                 ELSE IF Len(st.value) > 0
                 THEN Ret(get_short_format_status(st.value[1].status))
                 ELSE Ret(<<"?">>)

get_status_lines(r, d, status_opts) ==
    LET g == as_git2_repo(r, d)
    IN  IF g.panic THEN Panic
        ELSE LET st == statuses(g.value, status_opts)
             IN  IF st.panic THEN Panic
                 ELSE Ret([i \in 1..Len(st.value) |->
                             get_short_format_status(st.value[i].status)
                                 \o <<" ">> \o st.value[i].path])

get_status(r, d) ==
    get_status_lines(r, d, StatusOptions("IndexAndWorkdir", TRUE, FALSE))

get_stash_list(r, d) ==
    LET g == as_git2_repo(r, d)
    IN  IF g.panic THEN Panic
        ELSE Ret([i \in 1..Len(g.value.stashes) |->
                    <<"s", "t", "a", "s", "h", "@", "{">> \o Digits(i - 1)
                        \o <<"}", ":", " ">> \o g.value.stashes[i]])

----------------------------------------------------------------------------
(* ui: the rows of the table and their ordering *)

BasicColumn == {"Path", "State", "LastCommit"}

to_column(row, column) ==
    CASE column = "Path" -> row.name
      [] column = "State" -> row.state
      [] column = "LastCommit" -> row.last_commit

\* Row::cmp
cmp(self, other, column) ==
    CASE column = "Path" -> StrCmp(self.name, other.name)
      [] column = "State" -> StrCmp(self.state, other.state)
      [] column = "LastCommit" -> StrCmp(self.last_commit, other.last_commit)

\* the closure of execute that builds one Row; t is the instant Utc::now()
\* returns in this call
Row(r, d, t) ==
    LET h == num_hours_since_last_commit(r, d, t)
    IN  IF h.panic THEN Panic
        ELSE Ret([repo |-> r,
                  name |-> path(r),
                  state |-> <<".">>,
                  last_commit |-> FormatI64(h.value)])

\* repos.iter().map(..).collect(): the closure runs for rs[i] at the instant
\* ts[i]; a panic in the closure unwinds execute
BuildRows(rs, d, ts) ==
    IF \E i \in 1..Len(rs) : Row(rs[i], d, ts[i]).panic THEN Panic
    ELSE Ret([i \in 1..Len(rs) |-> Row(rs[i], d, ts[i]).value])

\* TableColumn's ordering when the column becomes the sorted one: Less,
\* unless .ordering(..) sets it
default_order(column) == IF column = "LastCommit" THEN "Greater" ELSE "Less"

\* the first column added is the table's sorted column from the start
FirstColumn == "Path"

\* the order a column gets when its header is activated: reversed when it
\* is the sorted column, its default order otherwise
column_select(column, current) ==
    IF current[1] # column THEN default_order(column)
    ELSE IF current[2] = "Less" THEN "Greater" ELSE "Less"

\* The TableView sorts its items with a stable sort by Row::cmp, the
\* operands swapped when the order is not Ordering::Less.
RowLess(a, b, column, order) ==
    IF order = "Less" THEN cmp(a, b, column) = "Less"
    ELSE cmp(b, a, column) = "Less"

RECURSIVE InsertRow(_, _, _, _)
InsertRow(row, s, column, order) ==
    IF s = <<>> THEN <<row>>
    ELSE IF RowLess(row, Head(s), column, order) THEN <<row>> \o s
    ELSE <<Head(s)>> \o InsertRow(row, Tail(s), column, order)

RECURSIVE SortItems(_, _, _)
SortItems(s, column, order) ==
    IF s = <<>> THEN <<>>
    ELSE InsertRow(s[Len(s)], SortItems(SubSeq(s, 1, Len(s) - 1), column, order),
                   column, order)

----------------------------------------------------------------------------
(* cli: dispatch on the subcommand *)

\* the subcommands get_clap_app declares; "None" is no subcommand
Declared == {"info", "list", "scan", "status"}

\* the subcommand the help text marks "[the default]"
HelpDefault == "list"

\* name: matches.subcommand_name(); run_ok: whether the subcommand's run
\* returned Ok
run_from_command_line(name, use_json, run_ok) ==
    LET ran == CASE name = "info" -> "info"
                 [] name = "list" -> "list"
                 [] name = "scan" -> "scan"
                 [] name = "status" -> "status"
                 [] name = "None" -> "status"
                 [] OTHER -> "BadSubcommand"
        ok == ran # "BadSubcommand" /\ run_ok
    IN  [subcommand |-> name, json |-> use_json, ran |-> ran,
         stream |-> IF ok THEN "stdout" ELSE "stderr",
         code |-> IF ok THEN 0 ELSE 1]

NotRun == [subcommand |-> "None", json |-> FALSE, ran |-> "nothing",
           stream |-> "none", code |-> -1]

----------------------------------------------------------------------------
(* Values the runs draw from *)

PathA == <<"/", "a">>
PathAB == <<"/", "a", "/", "b">>
PathB == <<"/", "b">>
Paths == {PathA, PathAB, PathB}

\* a repository that no longer opens
Gone == [opens |-> FALSE, bare |-> FALSE, tip |-> "no_head",
         commit_time |-> 0, statuses |-> <<>>, stashes |-> <<>>]

Tips == {"no_head", "no_target", "not_commit"}

\* nanoseconds of the clock readings: none, or half a second
Nanos == {0, 500000000}

\* timestamps at the start and at the last second of each hour
Times == {h * SecondsPerHour + o : h \in 0..MaxHours, o \in {0, SecondsPerHour - 1}}

EntryStatuses == {{"INDEX_NEW"}, {"WT_NEW"}, {"WT_MODIFIED"},
                  {"INDEX_MODIFIED", "WT_MODIFIED"}, {"INDEX_DELETED", "WT_NEW"},
                  {"IGNORED"}, {"CONFLICTED"}}

\* the i-th file of a listing
FileName(i) == <<"f">> \o Digits(i)

Listings ==
    UNION {{[i \in 1..n |-> [path |-> FileName(i), status |-> f[i]]] :
              f \in [1..n -> EntryStatuses]} : n \in 0..MaxEntries}

StashLists == {[i \in 1..n |-> <<"W", "I", "P">>] : n \in 0..MaxEntries}

\* backend states of the one-repo runs; a bare repository has no working
\* directory, hence no listing
RepoBackends ==
    {Gone} \cup
    {[opens |-> TRUE, bare |-> TRUE, tip |-> "commit", commit_time |-> 0,
      statuses |-> <<>>, stashes |-> <<>>]} \cup
    {[opens |-> TRUE, bare |-> FALSE, tip |-> tp, commit_time |-> 0,
      statuses |-> st, stashes |-> sh] :
        tp \in Tips, st \in Listings, sh \in StashLists} \cup
    {[opens |-> TRUE, bare |-> FALSE, tip |-> "commit", commit_time |-> ct,
      statuses |-> st, stashes |-> sh] :
        ct \in Times, st \in Listings, sh \in StashLists}

\* ages, in hours, of the tip commits of the UI runs
UiAges == {-10, -1, 9, 10}
UiNow == 10 * SecondsPerHour

\* the clock of the UI runs: the second before UiNow and UiNow itself
UiInstants == {Instant(UiNow - o, n) : o \in {0, 1}, n \in Nanos}

UiListing == <<[path |-> FileName(1), status |-> {"WT_MODIFIED"}]>>

UiBackends ==
    {Gone} \cup
    {[opens |-> TRUE, bare |-> TRUE, tip |-> "no_head", commit_time |-> 0,
      statuses |-> <<>>, stashes |-> <<>>]} \cup
    {[opens |-> TRUE, bare |-> FALSE, tip |-> "commit",
      commit_time |-> UiNow - a * SecondsPerHour, statuses |-> UiListing,
      stashes |-> <<>>] : a \in UiAges}

\* the instants at which n successive calls read a clock that shows t now
Readings(t, n) ==
    {ts \in [1..n -> UiInstants] :
        /\ \A i \in 1..n : InstantLeq(t, ts[i])
        /\ \A i, j \in 1..n : i < j => InstantLeq(ts[i], ts[j])}

\* Vec<Repo> of distinct paths, in any order
RepoVecs ==
    UNION {{[i \in 1..n |-> Repo(f[i])] :
              f \in {g \in [1..n -> Paths] :
                       \A i, j \in 1..n : i # j => g[i] # g[j]}} :
           n \in 0..MaxRepos}

PathsOf(rs) == {rs[i].path : i \in 1..Len(rs)}

NoResult == [op |-> "none", panic |-> FALSE, value |-> <<>>]

Called(op, r) == [op |-> op, panic |-> r.panic, value |-> r.value]

----------------------------------------------------------------------------
(* get_short_format_status on every status *)

InitFormat ==
    /\ status \in SUBSET Flags
    /\ short = <<>>
    /\ repos = <<>>
    /\ disk = <<>>
    /\ now = Instant(0, 0)
    /\ result = NoResult
    /\ pc = "start"
    /\ items = <<>>
    /\ sorted = <<>>
    /\ layers = 0
    /\ output = <<>>
    /\ cli = NotRun

FormatStatus ==
    /\ short = <<>>
    /\ short' = get_short_format_status(status)
    /\ UNCHANGED <<status, repos, disk, now, result, pc, items, sorted,
                   layers, output, cli>>

NextFormat == FormatStatus

SpecFormat == InitFormat /\ [][NextFormat]_vars

----------------------------------------------------------------------------
(* the queries of one Repo handle *)

InitRepo ==
    /\ status = {}
    /\ short = <<>>
    /\ repos = <<Repo(PathA)>>
    /\ disk \in [{PathA} -> RepoBackends]
    /\ now \in {Instant(t, n) : t \in Times, n \in Nanos}
    /\ result = NoResult
    /\ pc = "start"
    /\ items = <<>>
    /\ sorted = <<>>
    /\ layers = 0
    /\ output = <<>>
    /\ cli = NotRun

QueryUnchanged ==
    UNCHANGED <<status, short, repos, disk, now, pc, items, sorted, layers,
                output, cli>>

NumHours ==
    /\ result' = Called("num_hours_since_last_commit",
                        num_hours_since_last_commit(repos[1], disk, now))
    /\ QueryUnchanged

ShortStatus ==
    /\ result' = Called("get_short_status", get_short_status(repos[1], disk))
    /\ QueryUnchanged

Status ==
    /\ result' = Called("get_status", get_status(repos[1], disk))
    /\ QueryUnchanged

StashList ==
    /\ result' = Called("get_stash_list", get_stash_list(repos[1], disk))
    /\ QueryUnchanged

NextRepo == NumHours \/ ShortStatus \/ Status \/ StashList

SpecRepo == InitRepo /\ [][NextRepo]_vars

----------------------------------------------------------------------------
(* the program: the command line entry point and the console UI *)

Init ==
    /\ status = {}
    /\ short = <<>>
    /\ repos \in RepoVecs
    /\ disk \in [PathsOf(repos) -> UiBackends]
    /\ now \in UiInstants
    /\ result = NoResult
    /\ pc = "start"
    /\ items = <<>>
    /\ sorted = <<>>
    /\ layers = 0
    /\ output = <<>>
    /\ cli = NotRun

\* cli::run_from_command_line, the binary's entry point
RunFromCommandLine ==
    /\ pc = "start"
    /\ \E name \in Declared \cup {"None"}, use_json \in BOOLEAN,
          run_ok \in BOOLEAN :
          cli' = run_from_command_line(name, use_json, run_ok)
    /\ pc' = "exited"
    /\ UNCHANGED <<status, short, repos, disk, now, result, items, sorted,
                   layers, output>>

\* ui::execute up to siv.run(): the rows are built, each reading the clock,
\* and set_items shows them in the table's sorted order
Execute ==
    /\ pc = "start"
    /\ \E ts \in Readings(now, Len(repos)) :
          LET rows == BuildRows(repos, disk, ts)
          IN  /\ now' = IF Len(repos) = 0 THEN now ELSE ts[Len(repos)]
              /\ IF rows.panic
                 THEN pc' = "panicked" /\ items' = items /\ sorted' = sorted
                 ELSE /\ pc' = "ui"
                      /\ sorted' = <<FirstColumn, default_order(FirstColumn)>>
                      /\ items' = SortItems(rows.value, FirstColumn,
                                            default_order(FirstColumn))
    /\ UNCHANGED <<status, short, repos, disk, result, layers, output, cli>>

\* a column header is activated: the table sorts, on_sort opens a dialog
SortBy ==
    /\ pc = "ui"
    /\ layers = 0
    /\ \E column \in BasicColumn :
          LET order == column_select(column, sorted)
          IN  /\ items' = SortItems(items, column, order)
              /\ sorted' = <<column, order>>
    /\ layers' = layers + 1
    /\ UNCHANGED <<status, short, repos, disk, now, result, pc, output, cli>>

\* the dialog's Close button: pop_layer
CloseDialog ==
    /\ pc = "ui"
    /\ layers > 0
    /\ layers' = layers - 1
    /\ UNCHANGED <<status, short, repos, disk, now, result, pc, items,
                   sorted, output, cli>>

\* on_submit: the status lines of the selected row's repo go to the output
Submit ==
    /\ pc = "ui"
    /\ layers = 0
    /\ \E index \in 1..Len(items) :
          LET lines == get_status(items[index].repo, disk)
          IN  IF lines.panic
              THEN pc' = "panicked" /\ output' = output
              ELSE /\ pc' = pc
                   /\ output' = <<<<"S", "t", "a", "t", "u", "s">>>>
                                    \o lines.value
    /\ UNCHANGED <<status, short, repos, disk, now, result, items, sorted,
                   layers, cli>>

\* the global 'q' callback
Quit ==
    /\ pc = "ui"
    /\ pc' = "exited"
    /\ UNCHANGED <<status, short, repos, disk, now, result, items, sorted,
                   layers, output, cli>>

\* environment: a known repository is deleted while the UI runs
Vanish ==
    /\ pc = "ui"
    /\ \E p \in DOMAIN disk :
          /\ disk[p].opens
          /\ disk' = [disk EXCEPT ![p].opens = FALSE]
    /\ UNCHANGED <<status, short, repos, now, result, pc, items, sorted,
                   layers, output, cli>>

Next ==
    \/ RunFromCommandLine
    \/ Execute
    \/ SortBy
    \/ CloseDialog
    \/ Submit
    \/ Quit
    \/ Vanish

Spec == Init /\ [][Next]_vars

----------------------------------------------------------------------------
(* Properties of get_short_format_status, under SpecFormat *)

IndexPriority == <<<<"INDEX_NEW", "A">>, <<"INDEX_MODIFIED", "M">>,
                   <<"INDEX_DELETED", "D">>, <<"INDEX_RENAMED", "R">>,
                   <<"INDEX_TYPECHANGE", "T">>>>

WorktreePriority == <<<<"WT_NEW", "?">>, <<"WT_MODIFIED", "M">>,
                      <<"WT_DELETED", "D">>, <<"WT_RENAMED", "R">>,
                      <<"WT_TYPECHANGE", "T">>>>

\* the character of the first flag of the priority list that s has, else ' '
ByPriority(prio, s) ==
    LET hit == {i \in 1..Len(prio) : prio[i][1] \in s}
    IN  IF hit = {} THEN " " ELSE prio[Min(hit)][2]

Plain(s) == "IGNORED" \notin s /\ "CONFLICTED" \notin s

\* C1: with ignored and conflicted unset the result has exactly two
\* characters: the second is the worktree character by priority, the first
\* is the index character by priority, replaced by '?' exactly when
\* worktree-new is set and the index character would be ' '.
C1_ShortFormatTable ==
    (short # <<>> /\ Plain(status)) =>
        /\ Len(short) = 2
        /\ short[2] = ByPriority(WorktreePriority, status)
        /\ IF "WT_NEW" \in status /\ ByPriority(IndexPriority, status) = " "
           THEN short[1] = "?"
           ELSE short[1] = ByPriority(IndexPriority, status)

C1_Witness ==
    /\ short = <<"R", "?">>
    /\ Plain(status)
    /\ {"INDEX_RENAMED", "INDEX_TYPECHANGE", "WT_NEW", "WT_DELETED"}
           \subseteq status

\* C2: whenever conflicted is set the result is "CC", also when ignored is
\* set and whatever the index and worktree flags are.
C2_ConflictedWins ==
    (short # <<>> /\ "CONFLICTED" \in status) => short = <<"C", "C">>

C2_Witness ==
    /\ short = <<"C", "C">>
    /\ {"CONFLICTED", "IGNORED", "INDEX_NEW", "WT_MODIFIED"} \subseteq status

\* C3 as stated: an ignored file yields "!!" for every combination of the
\* remaining flags.
C3_IgnoredAlways ==
    (short # <<>> /\ "IGNORED" \in status) => short = <<"!", "!">>

\* C3 amended: an ignored file yields "!!" for every combination of the
\* remaining flags in which conflicted is not set.
C3_IgnoredUnlessConflicted ==
    (short # <<>> /\ "IGNORED" \in status /\ "CONFLICTED" \notin status) =>
        short = <<"!", "!">>

C3_Witness ==
    /\ short = <<"!", "!">>
    /\ {"IGNORED", "INDEX_NEW", "WT_MODIFIED"} \subseteq status
    /\ "CONFLICTED" \notin status

\* C4 as stated: index-new and worktree-new (ignored and conflicted unset)
\* yield "??".
C4_BothNewUntracked ==
    (short # <<>> /\ Plain(status) /\ "INDEX_NEW" \in status
        /\ "WT_NEW" \in status) => short = <<"?", "?">>

\* C4 amended: index-new and worktree-new (ignored and conflicted unset)
\* yield "A?"; "??" is the result when worktree-new is set and no index flag
\* is.
C4_BothNewAdded ==
    (short # <<>> /\ Plain(status) /\ "WT_NEW" \in status) =>
        /\ "INDEX_NEW" \in status => short = <<"A", "?">>
        /\ status \cap IndexFlags = {} => short = <<"?", "?">>

C4_Witness ==
    /\ short = <<"A", "?">>
    /\ Plain(status)
    /\ "INDEX_NEW" \in status
    /\ "WT_NEW" \in status

----------------------------------------------------------------------------
(* Properties of the Repo queries, under SpecRepo *)

\* C5: get_short_status returns a two-character code for every repository
\* state: the code of the first entry of the worktree-only listing, and
\* still two characters when that listing is empty.
C5_ShortStatusTwoChars ==
    (result.op = "get_short_status" /\ ~result.panic) =>
        LET st == statuses(disk[PathA],
                           StatusOptions("Workdir", FALSE, FALSE)).value
        IN  /\ Len(result.value) = 2
            /\ Len(st) > 0 =>
                   result.value = get_short_format_status(st[1].status)

\* h is the whole number of hours in the time from the second ct to the
\* instant t: with e = (t.secs - ct) seconds + t.nanos the elapsed time,
\* h hours <= e < h + 1 hours when e >= 0, h - 1 hours < e <= h hours when
\* e < 0
WholeHours(h, t, ct) ==
    LET d == t.secs - ct
        part == t.nanos > 0
    IN  IF d >= 0
        THEN h >= 0 /\ h * SecondsPerHour <= d /\ d < (h + 1) * SecondsPerHour
        ELSE /\ h <= 0
             /\ IF part
                THEN (h - 1) * SecondsPerHour <= d /\ d < h * SecondsPerHour
                ELSE (h - 1) * SecondsPerHour < d /\ d <= h * SecondsPerHour

\* C6: when the repository opens, num_hours_since_last_commit raises no
\* error; it returns i64::max_value() when the tip cannot be resolved (no
\* HEAD, no direct target, target not a commit) and the whole hours between
\* the tip commit's timestamp and now in every other case.
C6_AgeOrSentinel ==
    (result.op = "num_hours_since_last_commit" /\ disk[PathA].opens) =>
        /\ ~result.panic
        /\ IF disk[PathA].tip = "commit"
           THEN /\ ~result.value.max
                /\ WholeHours(result.value.n, now, disk[PathA].commit_time)
           ELSE result.value = i64_max_value

C6_Witness ==
    /\ result.op = "num_hours_since_last_commit"
    /\ disk[PathA].opens
    /\ disk[PathA].tip = "no_target"
    /\ result.value = i64_max_value

----------------------------------------------------------------------------
(* Properties of the program, under Spec *)

\* C7: a repository that no longer opens never makes the process panic, and
\* the rows built for N repositories are N rows.
C7_InaccessibleIsNotFatal ==
    /\ pc # "panicked"
    /\ pc = "ui" => Len(items) = Len(repos)

\* C8: under the status column and under the last-commit column, two rows
\* whose column keys are equal are ordered by path.
C8_TiesBrokenByPath ==
    \A i, j \in 1..Len(items), column \in {"State", "LastCommit"} :
        to_column(items[i], column) = to_column(items[j], column) =>
            cmp(items[i], items[j], column)
                = StrCmp(items[i].name, items[j].name)

\* C9: invoked with no subcommand, run_from_command_line runs the
\* subcommand the help declares to be the default, list.
C9_DefaultIsList ==
    (cli.ran # "nothing" /\ cli.subcommand = "None") => cli.ran = HelpDefault

\* the age num_hours_since_last_commit reports for a row's repository at
\* the end of execute
AgeOf(row) == num_hours_since_last_commit(row.repo, disk, now)

\* C10: under the last-commit column a row of smaller age, as an integer,
\* compares Less than a row of greater age, the unknown-age sentinel being
\* the greatest age.
C10_LastCommitNumeric ==
    \A i, j \in 1..Len(items) :
        (/\ ~AgeOf(items[i]).panic
         /\ ~AgeOf(items[j]).panic
         /\ I64Less(AgeOf(items[i]).value, AgeOf(items[j]).value)) =>
            cmp(items[i], items[j], "LastCommit") = "Less"

====
